---------------------------- MODULE Spec2Model ----------------------------
(***************************************************************************)
(* Chat session controllers of the AI research assistant front end.        *)
(*                                                                         *)
(* Two React components own a transcript and a request lifecycle:          *)
(*   - ChatWindow   (src/frontend/components/ChatWindow.tsx)               *)
(*   - Chat         (src/frontend/pages/chat.tsx), which also owns the     *)
(*                  session bootstrap (personality, upload).               *)
(* One of them is mounted in a behaviour (variable mounted).               *)
(*                                                                         *)
(* JavaScript is single-threaded and run-to-completion: an async handler   *)
(* runs synchronously up to its next await.  Every invocation of           *)
(* sendMessage is a frame (its closure and local variables, and the        *)
(* position pc it is suspended at).  The synchronous tail that follows     *)
(* `await response.json()` is split into its setState calls so that each   *)
(* write to the transcript is a step; while a frame is inside such a tail  *)
(* (Busy) no other handler runs.  State updates are applied in the order   *)
(* the code queues them (all updates to messages are functional updates).  *)
(***************************************************************************)
EXTENDS Naturals, Integers, Sequences, FiniteSets, TLC

\* ----------------------------------------------------------------- bounds
\* sendMessage invocations that get past the guard in one behaviour (each
\* dispatches a chat request or, without a session, appends the guidance).
MaxAsks == 2
\* Upload requests started in one behaviour.
MaxUploads == 2

\* ------------------------------------------------------------- JS values
Null == "<null>"
Undefined == "<undefined>"
\* `let placeholderIndex: number | null = null`: the null of a number slot.
NoIndex == -1

\* The characters removed by String.prototype.trim (ECMAScript WhiteSpace and
\* LineTerminator) that a string of this module can hold: space, TAB, LF, CR,
\* FF, then VT (U+000B), NO-BREAK SPACE (U+00A0), ZERO WIDTH NO-BREAK SPACE
\* (U+FEFF) and OGHAM SPACE MARK (U+1680) written as the characters
\* themselves.  trim also removes U+2000..U+200A, U+2028, U+2029, U+202F,
\* U+205F and U+3000; these cannot occur in a string literal of TLA+, so no
\* text of the module contains them.
WhiteSpace ==
  {" ", "\t", "\n", "\r", "\f", "", " ", "﻿", " "}

\* The texts the user can type, as character sequences: the empty text, a
\* blank text (a space and a NO-BREAK SPACE, U+00A0), and a question with
\* white space around and inside it.  The box is an <input type="text">, whose
\* value never holds LF or CR.
InputTexts ==
  { <<>>, <<" ", " ">>, <<" ", "a", " ", "b", "\t">> }

RECURSIVE TrimStart(_)
TrimStart(cs) ==
  IF cs = <<>> THEN <<>>
  ELSE IF Head(cs) \in WhiteSpace THEN TrimStart(Tail(cs)) ELSE cs

RECURSIVE TrimEnd(_)
TrimEnd(cs) ==
  IF cs = <<>> THEN <<>>
  ELSE IF cs[Len(cs)] \in WhiteSpace
       THEN TrimEnd(SubSeq(cs, 1, Len(cs) - 1)) ELSE cs

\* input.trim()
Trim(cs) == TrimEnd(TrimStart(cs))

\* The string made of the characters cs.
RECURSIVE Str(_)
Str(cs) == IF cs = <<>> THEN "" ELSE Head(cs) \o Str(Tail(cs))

\* ------------------------------------------------------------- messages
PlaceholderText == "Conducting deep research..."
NoAnswerText == "*(No answer)*"
ChatErrorText == "Error: Failed to get answer."
UploadErrorText == "Error: Failed to summarize document."
GuidanceText == "Please upload a document first."
ToolBanner == "Invoking research tool..."
ResearchTool == "Bing Search"

\* type Message = { sender, content, isLoading? }
Msg(sender, content, loading) ==
  [sender |-> sender, content |-> content, isLoading |-> loading]

UserMsg(q) == Msg("user", q, FALSE)
AssistantMsg(c) == Msg("assistant", c, FALSE)
\* Variant of the placeholder without its isLoading mark.
PlaceholderMsg_notLoading == Msg("assistant", PlaceholderText, FALSE)

PlaceholderMsg == Msg("assistant", PlaceholderText, TRUE)
\* An array hole read back as undefined (a write past the end of the array).
HoleMsg == Msg(Undefined, Undefined, FALSE)

\* Variant that builds [m, ...prev].
ArrayPush_prepend(arr, m) == <<m>> \o arr

\* [...prev, m]
ArrayPush(arr, m) == Append(arr, m)

\* const a = [...prev]; a[i] = m; return a   (i is a 0-based index)
ArraySet(arr, i, m) ==
  IF i < Len(arr)
    THEN [arr EXCEPT ![i + 1] = m]
    ELSE arr \o [k \in 1..(i - Len(arr)) |-> HoleMsg] \o <<m>>

\* Removal of the k-th frame from a sequence of frames.
RemoveAt(s, k) == SubSeq(s, 1, k - 1) \o SubSeq(s, k + 1, Len(s))

\* ------------------------------------------------- chat service responses
\* The value of the `tools_used` field of a response body.
ToolsValue(t, items, n) == [t |-> t, items |-> items, n |-> n]
ToolsUndefined == ToolsValue("undefined", <<>>, 0)
ToolsNull == ToolsValue("null", <<>>, 0)
ToolsArray(items) == ToolsValue("array", items, 0)
ToolsNumber(n) == ToolsValue("number", <<>>, n)

ToolsValues ==
  { ToolsUndefined, ToolsNull, ToolsArray(<<>>), ToolsArray(<<ResearchTool>>),
    ToolsArray(<<"Calculator">>), ToolsNumber(0), ToolsNumber(7) }

\* A parsed JSON body: the JSON value null, a JSON number, or an object with
\* the fields answer (a string, or missing) and tools_used.
Body(json, answer, tools) == [json |-> json, answer |-> answer, tools_used |-> tools]
NullBody == Body("null", Undefined, ToolsUndefined)
NumberBody == Body("number", Undefined, ToolsUndefined)

ChatBodies ==
  { NullBody, NumberBody }
  \cup { Body("object", a, t) : a \in {Undefined, "", "a1"}, t \in ToolsValues }

NoBody == Body("none", Undefined, ToolsUndefined)

\* JavaScript truthiness of a tools_used value.
Truthy(tv) ==
  CASE tv.t = "undefined" -> FALSE
    [] tv.t = "null" -> FALSE
    [] tv.t = "number" -> tv.n # 0
    [] OTHER -> TRUE

\* Whether tv.includes is a function (arrays; a number has no such method).
HasIncludes(tv) == tv.t = "array"

\* tv.includes(x) of an array
Includes(tv, x) == \E k \in 1..Len(tv.items) : tv.items[k] = x

\* `data.answer` and `data.tools_used` throw a TypeError when data is null.
ReadThrows(data) == data.json = "null"

\* Variant that uses data.answer as it is.
AnswerOf_raw(data) == IF data.json # "object" THEN Undefined ELSE data.answer

\* data.answer || "*(No answer)*"
AnswerOf(data) ==
  IF data.json # "object" \/ data.answer \in {Undefined, ""}
    THEN NoAnswerText ELSE data.answer

\* The tools_used property as read from data (undefined on a non-object).
ToolsOf(data) == IF data.json = "object" THEN data.tools_used ELSE ToolsUndefined

\* `data.tools_used && data.tools_used.includes("Bing Search")` throws.
ToolsCheckThrows(data) == Truthy(ToolsOf(data)) /\ ~HasIncludes(ToolsOf(data))

\* `data.tools_used && data.tools_used.includes("Bing Search")` is truthy.
ToolsCheck(data) ==
  /\ Truthy(ToolsOf(data))
  /\ HasIncludes(ToolsOf(data))
  /\ Includes(ToolsOf(data), ResearchTool)

\* ----------------------------------------------------------------- state
Personalities == {"factual", "friendly", "humorous"}
SessionIds == {"s1", "s2"}

\* The props a parent can mount ChatWindow with: <<sessionId, personality>>.
\* sessionId is typed `string`, so ChatWindow is never given null.
CW_Props == { <<"s1", "factual">>, <<"s2", "humorous">> }

VARIABLES
  mounted,        \* the component this behaviour runs: "ChatWindow", "Chat"
                  \* or "DocumentUploader" ("Pair": the two controllers)
  \* ChatWindow (components/ChatWindow.tsx)
  cw_sessionId,   \* prop sessionId
  cw_personality, \* prop personality
  cw_messages,    \* useState messages
  cw_input,       \* useState input
  isLoading,      \* useState isLoading
  toolUsed,       \* useState toolUsed
  cw_calls,       \* frames of the sendMessage invocations not yet returned
  cw_sent,        \* request bodies given to fetch, in order
  cw_lastCall,    \* how the sendMessage invocation of the latest step went
  \* Chat (pages/chat.tsx)
  personality,    \* useState personality
  sessionId,      \* useState sessionId
  summary,        \* useState summary
  messages,       \* useState messages
  input,          \* useState input
  isTyping,       \* useState isTyping
  uploading,      \* useState uploading
  file,           \* useState file
  calls,          \* frames of the sendMessage invocations not yet returned
  sent,           \* request bodies given to fetch, in order
  lastCall,       \* how the sendMessage invocation of the latest step went
  uploads,        \* frames of the handleUpload invocations not yet returned
  nUploads,       \* upload requests given to fetch so far
  \* DocumentUploader (components/DocumentUploader.tsx)
  du_file,        \* useState file
  du_uploading,   \* useState uploading
  du_uploads,     \* frames of the handleUpload invocations not yet returned
  du_results,     \* the arguments onUpload was called with, in order
  du_nUploads     \* upload requests given to fetch so far

cwProps == <<cw_sessionId, cw_personality>>

cwVars == <<cw_sessionId, cw_personality, cw_messages, cw_input, isLoading,
            toolUsed, cw_calls, cw_sent, cw_lastCall>>

chatVars == <<personality, sessionId, summary, messages, input, isTyping,
              uploading, file, calls, sent, lastCall, uploads, nUploads>>

duVars == <<du_file, du_uploading, du_uploads, du_results, du_nUploads>>

vars == <<mounted, cwVars, chatVars, duVars>>

\* Variant that never asks for research.
ChatRequest_researchOff(question, sid, pers, research) ==
  [question |-> question, session_id |-> sid, personality |-> pers,
   research |-> FALSE]

\* JSON.stringify({question, session_id, personality, research})
ChatRequest(question, sid, pers, research) ==
  [question |-> question, session_id |-> sid, personality |-> pers,
   research |-> research]

\* What a catch block can be entered with.
NoError == "none"
NetworkError == "TypeError: Failed to fetch"
HttpError == "Error: HTTP error!"
ParseError == "SyntaxError: JSON"
TypeError == "TypeError"

\* The frame of one sendMessage invocation suspended at an await.
\*   messages: the messages of the render the handler closed over
\*   data:     the parsed body, once response.json() has resolved and while
\*             the handler still reads it
\*   answer:   the local `answer`, once computed
\*   error:    the exception caught by the catch block, if any
Frame(req, msgs, idx, pc) ==
  [request |-> req, messages |-> msgs, placeholderIndex |-> idx, pc |-> pc,
   data |-> NoBody, answer |-> Undefined, error |-> NoError]

\* The frame f enters the catch block with the exception e.
Throw(f, e) == [f EXCEPT !.pc = "catch", !.error = e]

\* Positions inside the synchronous tail of a frame.
SyncPcs == {"tools", "catch", "finally"}

\* A frame is in the middle of synchronous code.
Busy(frames) == \E k \in 1..Len(frames) : frames[k].pc \in SyncPcs

\* How a sendMessage invocation went (CallNone: the latest step was not one).
CallNone == "none"
CallIgnoredEmpty == "ignored: empty input"
CallIgnoredSending == "ignored: sending"
CallGuidance == "guidance"
CallDispatched == "dispatched"

\* Variant of the reconciliation that ignores the placeholder and appends.
Reconcile_alwaysAppend(msgs, f, text) == Append(msgs, AssistantMsg(text))

\* Reconciliation of a final text into the transcript by the frame f
\* (ChatWindow.tsx lines 59-67 and 74-85; chat.tsx lines 136-147 and 151-162):
\* written at the captured index in research mode, appended otherwise.
Reconcile(msgs, f, text) ==
  IF f.request.research /\ f.placeholderIndex # NoIndex
    THEN ArraySet(msgs, f.placeholderIndex, AssistantMsg(text))
    ELSE ArrayPush(msgs, AssistantMsg(text))

\* Variant that captures messages.length, the index of the user message.
PlaceholderIndexOf_userIndex(msgs) == Len(msgs)

\* Variant that captures messages.length + 2, one past the placeholder.
PlaceholderIndexOf_pastEnd(msgs) == Len(msgs) + 2

\* The index captured for the placeholder: messages.length + 1.
PlaceholderIndexOf(msgs) == Len(msgs) + 1

\* ------------------------------------------------------------ ChatWindow
\* The frame k of ChatWindow.sendMessage moves to position pc.
CW_goto(k, pc) == [cw_calls EXCEPT ![k].pc = pc]

\* The frame k of ChatWindow.sendMessage throws e inside the try block.
CW_throw(k, e) == [cw_calls EXCEPT ![k] = Throw(cw_calls[k], e)]

\* Variant of sendMessage without its guard line.
CW_ignored_never == FALSE

\* The guard of sendMessage: `if (!input.trim() || isLoading) return;`
CW_ignored == Trim(cw_input) = <<>> \/ isLoading

\* onChange of the text box: setInput(e.target.value).  The box is rendered
\* with `disabled={isLoading}`, so the user types only while idle.
CW_setInput_run(v) ==
  /\ ~Busy(cw_calls)
  /\ ~isLoading
  /\ cw_input' = v
  /\ cw_lastCall' = CallNone
  /\ UNCHANGED <<cwProps, cw_messages, isLoading, toolUsed, cw_calls,
                 cw_sent>>

\* CW_setInput: the step above, taken by the mounted ChatWindow.
CW_setInput(v) ==
  /\ mounted = "ChatWindow"
  /\ CW_setInput_run(v)
  /\ UNCHANGED <<mounted, duVars, chatVars>>

\* sendMessage(useResearch), up to `await fetch(...)`
CW_sendMessage_run(useResearch) ==
  /\ ~Busy(cw_calls)
  /\ IF CW_ignored
       THEN /\ cw_lastCall' = (IF Trim(cw_input) = <<>> THEN CallIgnoredEmpty
                               ELSE CallIgnoredSending)
            /\ UNCHANGED <<cw_messages, cw_input, isLoading, cw_calls, cw_sent>>
       ELSE LET question == Str(Trim(cw_input))
                idx == IF useResearch THEN PlaceholderIndexOf(cw_messages)
                       ELSE NoIndex
                withUser == ArrayPush(cw_messages, UserMsg(question))
                req == ChatRequest(question, cw_sessionId, cw_personality,
                                   useResearch)
            IN /\ Len(cw_sent) < MaxAsks
               /\ cw_input' = <<>>
               /\ isLoading' = TRUE
               /\ cw_messages' = (IF useResearch
                                    THEN ArrayPush(withUser, PlaceholderMsg)
                                    ELSE withUser)
               /\ cw_sent' = Append(cw_sent, req)
               /\ cw_calls' = Append(cw_calls,
                                Frame(req, cw_messages, idx, "fetch"))
               /\ cw_lastCall' = CallDispatched
  /\ UNCHANGED <<cwProps, toolUsed>>

\* CW_sendMessage: the step above, taken by the mounted ChatWindow.
CW_sendMessage(useResearch) ==
  /\ mounted = "ChatWindow"
  /\ CW_sendMessage_run(useResearch)
  /\ UNCHANGED <<mounted, duVars, chatVars>>

\* fetch rejects (network error): control enters the catch block.
CW_fetchReject_run(k) ==
  /\ ~Busy(cw_calls)
  /\ k \in 1..Len(cw_calls)
  /\ cw_calls[k].pc = "fetch"
  /\ cw_calls' = CW_throw(k, NetworkError)
  /\ cw_lastCall' = CallNone
  /\ UNCHANGED <<cwProps, cw_messages, cw_input, isLoading, toolUsed,
                 cw_sent>>

\* CW_fetchReject: the step above, taken by the mounted ChatWindow.
CW_fetchReject(k) ==
  /\ mounted = "ChatWindow"
  /\ CW_fetchReject_run(k)
  /\ UNCHANGED <<mounted, duVars, chatVars>>

\* fetch resolves with a response; `if (!response.ok)` awaits response.text(),
\* otherwise the handler awaits response.json().
CW_fetchResolve_run(k, ok) ==
  /\ ~Busy(cw_calls)
  /\ k \in 1..Len(cw_calls)
  /\ cw_calls[k].pc = "fetch"
  /\ cw_calls' = CW_goto(k, IF ok THEN "json" ELSE "text")
  /\ cw_lastCall' = CallNone
  /\ UNCHANGED <<cwProps, cw_messages, cw_input, isLoading, toolUsed,
                 cw_sent>>

\* CW_fetchResolve: the step above, taken by the mounted ChatWindow.
CW_fetchResolve(k, ok) ==
  /\ mounted = "ChatWindow"
  /\ CW_fetchResolve_run(k, ok)
  /\ UNCHANGED <<mounted, duVars, chatVars>>

\* response.text() settles; the handler throws the HTTP error (or the read
\* itself rejects): control enters the catch block.
CW_textSettle_run(k) ==
  /\ ~Busy(cw_calls)
  /\ k \in 1..Len(cw_calls)
  /\ cw_calls[k].pc = "text"
  /\ cw_calls' = CW_throw(k, HttpError)
  /\ cw_lastCall' = CallNone
  /\ UNCHANGED <<cwProps, cw_messages, cw_input, isLoading, toolUsed,
                 cw_sent>>

\* CW_textSettle: the step above, taken by the mounted ChatWindow.
CW_textSettle(k) ==
  /\ mounted = "ChatWindow"
  /\ CW_textSettle_run(k)
  /\ UNCHANGED <<mounted, duVars, chatVars>>

\* response.json() rejects (the body is not JSON).
CW_jsonReject_run(k) ==
  /\ ~Busy(cw_calls)
  /\ k \in 1..Len(cw_calls)
  /\ cw_calls[k].pc = "json"
  /\ cw_calls' = CW_throw(k, ParseError)
  /\ cw_lastCall' = CallNone
  /\ UNCHANGED <<cwProps, cw_messages, cw_input, isLoading, toolUsed,
                 cw_sent>>

\* CW_jsonReject: the step above, taken by the mounted ChatWindow.
CW_jsonReject(k) ==
  /\ mounted = "ChatWindow"
  /\ CW_jsonReject_run(k)
  /\ UNCHANGED <<mounted, duVars, chatVars>>

\* response.json() resolves with data; lines 57-67: the answer is computed
\* and written into the transcript.
CW_jsonResolve_run(k, data) ==
  /\ ~Busy(cw_calls)
  /\ k \in 1..Len(cw_calls)
  /\ cw_calls[k].pc = "json"
  /\ IF ReadThrows(data)
       THEN /\ cw_calls' = [cw_calls EXCEPT
                              ![k] = Throw([@ EXCEPT !.data = data], TypeError)]
            /\ UNCHANGED cw_messages
       ELSE /\ cw_calls' = [cw_calls EXCEPT ![k].pc = "tools",
                                            ![k].data = data,
                                            ![k].answer = AnswerOf(data)]
            /\ cw_messages' = Reconcile(cw_messages, cw_calls[k], AnswerOf(data))
  /\ cw_lastCall' = CallNone
  /\ UNCHANGED <<cwProps, cw_input, isLoading, toolUsed, cw_sent>>

\* CW_jsonResolve: the step above, taken by the mounted ChatWindow.
CW_jsonResolve(k, data) ==
  /\ mounted = "ChatWindow"
  /\ CW_jsonResolve_run(k, data)
  /\ UNCHANGED <<mounted, duVars, chatVars>>

\* lines 68-70: the tools_used check and the advisory banner.
CW_toolsCheck_run(k) ==
  /\ k \in 1..Len(cw_calls)
  /\ cw_calls[k].pc = "tools"
  /\ IF ToolsCheckThrows(cw_calls[k].data)
       THEN /\ cw_calls' = CW_throw(k, TypeError)
            /\ UNCHANGED toolUsed
       ELSE /\ cw_calls' = CW_goto(k, "finally")
            /\ toolUsed' = (IF ToolsCheck(cw_calls[k].data) THEN ToolBanner
                            ELSE toolUsed)
  /\ cw_lastCall' = CallNone
  /\ UNCHANGED <<cwProps, cw_messages, cw_input, isLoading, cw_sent>>

\* CW_toolsCheck: the step above, taken by the mounted ChatWindow.
CW_toolsCheck(k) ==
  /\ mounted = "ChatWindow"
  /\ CW_toolsCheck_run(k)
  /\ UNCHANGED <<mounted, duVars, chatVars>>

\* lines 71-85: the catch block writes the fixed error text.
CW_catch_run(k) ==
  /\ k \in 1..Len(cw_calls)
  /\ cw_calls[k].pc = "catch"
  /\ cw_messages' = Reconcile(cw_messages, cw_calls[k], ChatErrorText)
  /\ cw_calls' = CW_goto(k, "finally")
  /\ cw_lastCall' = CallNone
  /\ UNCHANGED <<cwProps, cw_input, isLoading, toolUsed, cw_sent>>

\* CW_catch: the step above, taken by the mounted ChatWindow.
CW_catch(k) ==
  /\ mounted = "ChatWindow"
  /\ CW_catch_run(k)
  /\ UNCHANGED <<mounted, duVars, chatVars>>

\* Variant of the finally block that does not clear isLoading.
CW_finally_keepsLoading(k) ==
  /\ mounted = "ChatWindow"
  /\ k \in 1..Len(cw_calls)
  /\ cw_calls[k].pc = "finally"
  /\ cw_calls' = RemoveAt(cw_calls, k)
  /\ cw_lastCall' = CallNone
  /\ UNCHANGED <<mounted, duVars, cwProps, cw_messages, cw_input, isLoading, toolUsed,
                 cw_sent, chatVars>>

\* lines 86-88: finally { setIsLoading(false) }; the invocation returns.
CW_finally_run(k) ==
  /\ k \in 1..Len(cw_calls)
  /\ cw_calls[k].pc = "finally"
  /\ isLoading' = FALSE
  /\ cw_calls' = RemoveAt(cw_calls, k)
  /\ cw_lastCall' = CallNone
  /\ UNCHANGED <<cwProps, cw_messages, cw_input, toolUsed, cw_sent>>

\* CW_finally: the step above, taken by the mounted ChatWindow.
CW_finally(k) ==
  /\ mounted = "ChatWindow"
  /\ CW_finally_run(k)
  /\ UNCHANGED <<mounted, duVars, chatVars>>

\* The state of ChatWindow after its first render (lines 18-21).
CW_Init ==
  /\ cw_messages = <<>>
  /\ cw_input = <<>>
  /\ isLoading = FALSE
  /\ toolUsed = Null
  /\ cw_calls = <<>>
  /\ cw_sent = <<>>
  /\ cw_lastCall = CallNone

CW_Next ==
  \/ \E v \in InputTexts : CW_setInput(v)
  \/ \E r \in BOOLEAN : CW_sendMessage(r)
  \/ \E k \in 1..Len(cw_calls) : CW_fetchReject(k)
  \/ \E k \in 1..Len(cw_calls), ok \in BOOLEAN : CW_fetchResolve(k, ok)
  \/ \E k \in 1..Len(cw_calls) : CW_textSettle(k)
  \/ \E k \in 1..Len(cw_calls) : CW_jsonReject(k)
  \/ \E k \in 1..Len(cw_calls), data \in ChatBodies : CW_jsonResolve(k, data)
  \/ \E k \in 1..Len(cw_calls) : CW_toolsCheck(k)
  \/ \E k \in 1..Len(cw_calls) : CW_catch(k)
  \/ \E k \in 1..Len(cw_calls) : CW_finally(k)

\* ------------------------------------------------------------------ Chat
\* JavaScript falsiness of the values sessionId and file take.
Falsy(v) == v \in {Null, Undefined, ""}

\* A parsed JSON body of the upload service: null, or an object with the
\* fields session_id and summary (either may be missing).
UploadBody(json, sid, sum) == [json |-> json, session_id |-> sid, summary |-> sum]

UploadBodies ==
  { UploadBody("null", Undefined, Undefined),
    UploadBody("object", "s1", "doc about cats"),
    UploadBody("object", "s2", Undefined),
    UploadBody("object", Undefined, "doc about cats") }

NoUploadBody == UploadBody("none", Undefined, Undefined)

\* The frame of one handleUpload invocation suspended at an await.
\*   data:  the parsed body, once res.json() has resolved
\*   error: the exception caught by the catch block, if any
UploadFrame(pc) == [pc |-> pc, data |-> NoUploadBody, error |-> NoError]

\* Variant that stores data.summary as it is.
SummaryOf_raw(data) == data.summary

\* data.summary || ""
SummaryOf(data) == IF Falsy(data.summary) THEN "" ELSE data.summary

\* The files a change event of the file input can carry.
FileLists == { <<>>, <<"doc.pdf">> }

\* The number of guidance messages in a transcript.
RECURSIVE GuidanceCount(_)
GuidanceCount(msgs) ==
  IF msgs = <<>> THEN 0
  ELSE (IF Head(msgs).content = GuidanceText THEN 1 ELSE 0)
       + GuidanceCount(Tail(msgs))

\* The frame k of Chat.sendMessage moves to position pc.
Chat_goto(k, pc) == [calls EXCEPT ![k].pc = pc]

\* The frame k of Chat.sendMessage throws e inside the try block.
Chat_throw(k, e) == [calls EXCEPT ![k] = Throw(calls[k], e)]

\* Variant of the guard that tests the input without trimming it.
Chat_ignored_withoutTrim == input = <<>> \/ isTyping

\* A handler of Chat (sendMessage or handleUpload) is in the middle of
\* synchronous code.
Chat_busy == Busy(calls) \/ Busy(uploads)

\* The guard of sendMessage: `if (!input.trim() || isTyping) return;`
Chat_ignored == Trim(input) = <<>> \/ isTyping

\* `if (!sessionId)`: the pre-session screen is rendered (line 176) and
\* sendMessage answers with the guidance message (line 89).
NoSession == Falsy(sessionId)

\* Variant whose personality selector is rendered with a session as well.
handlePersonalityChange_withSession(v) ==
  /\ mounted = "Chat"
  /\ ~Chat_busy
  /\ personality' = v
  /\ lastCall' = CallNone
  /\ UNCHANGED <<mounted, duVars, cwVars, sessionId, summary, messages, input, isTyping,
                 uploading, file, calls, sent, uploads, nUploads>>

\* onChange of the personality selector (rendered while there is no session).
handlePersonalityChange_run(v) ==
  /\ ~Chat_busy
  /\ NoSession
  /\ personality' = v
  /\ lastCall' = CallNone
  /\ UNCHANGED <<sessionId, summary, messages, input, isTyping,
                 uploading, file, calls, sent, uploads, nUploads>>

\* handlePersonalityChange: the step above, taken by the mounted Chat.
handlePersonalityChange(v) ==
  /\ mounted = "Chat"
  /\ handlePersonalityChange_run(v)
  /\ UNCHANGED <<mounted, duVars, cwVars>>

\* onChange of the file input (rendered while there is no session).
handleFileChange_run(files) ==
  /\ ~Chat_busy
  /\ NoSession
  /\ file' = (IF Len(files) > 0 THEN files[1] ELSE file)
  /\ lastCall' = CallNone
  /\ UNCHANGED <<personality, sessionId, summary, messages,
                 input, isTyping, uploading, calls, sent, uploads, nUploads>>

\* handleFileChange: the step above, taken by the mounted Chat.
handleFileChange(files) ==
  /\ mounted = "Chat"
  /\ handleFileChange_run(files)
  /\ UNCHANGED <<mounted, duVars, cwVars>>

\* Variant whose upload button is rendered with a session as well.
handleUpload_withSession ==
  /\ mounted = "Chat"
  /\ ~Chat_busy
  /\ ~(uploading \/ Falsy(file))
  /\ nUploads < MaxUploads
  /\ uploading' = TRUE
  /\ uploads' = Append(uploads, UploadFrame("fetch"))
  /\ nUploads' = nUploads + 1
  /\ lastCall' = CallNone
  /\ UNCHANGED <<mounted, duVars, cwVars, personality, sessionId, summary, messages,
                 input, isTyping, file, calls, sent>>

\* onClick of the upload button, rendered while there is no session with
\* disabled={uploading || !file}; handleUpload up to `await fetch(...)`.
handleUpload_run ==
  /\ ~Chat_busy
  /\ NoSession
  /\ ~(uploading \/ Falsy(file))
  /\ nUploads < MaxUploads
  /\ uploading' = TRUE
  /\ uploads' = Append(uploads, UploadFrame("fetch"))
  /\ nUploads' = nUploads + 1
  /\ lastCall' = CallNone
  /\ UNCHANGED <<personality, sessionId, summary, messages,
                 input, isTyping, file, calls, sent>>

\* handleUpload: the step above, taken by the mounted Chat.
handleUpload ==
  /\ mounted = "Chat"
  /\ handleUpload_run
  /\ UNCHANGED <<mounted, duVars, cwVars>>

\* The upload fetch rejects (network error): control enters the catch block.
Upload_fetchReject_run(k) ==
  /\ ~Chat_busy
  /\ k \in 1..Len(uploads)
  /\ uploads[k].pc = "fetch"
  /\ uploads' = [uploads EXCEPT ![k] = Throw(@, NetworkError)]
  /\ lastCall' = CallNone
  /\ UNCHANGED <<personality, sessionId, summary, messages,
                 input, isTyping, uploading, file, calls, sent, nUploads>>

\* Upload_fetchReject: the step above, taken by the mounted Chat.
Upload_fetchReject(k) ==
  /\ mounted = "Chat"
  /\ Upload_fetchReject_run(k)
  /\ UNCHANGED <<mounted, duVars, cwVars>>

\* The upload fetch resolves: `if (!res.ok)` awaits res.text(), otherwise
\* the handler awaits res.json().
Upload_fetchResolve_run(k, ok) ==
  /\ ~Chat_busy
  /\ k \in 1..Len(uploads)
  /\ uploads[k].pc = "fetch"
  /\ uploads' = [uploads EXCEPT ![k].pc = IF ok THEN "json" ELSE "text"]
  /\ lastCall' = CallNone
  /\ UNCHANGED <<personality, sessionId, summary, messages,
                 input, isTyping, uploading, file, calls, sent, nUploads>>

\* Upload_fetchResolve: the step above, taken by the mounted Chat.
Upload_fetchResolve(k, ok) ==
  /\ mounted = "Chat"
  /\ Upload_fetchResolve_run(k, ok)
  /\ UNCHANGED <<mounted, duVars, cwVars>>

\* res.text() settles and the HTTP error is thrown (or the read itself
\* rejects), or res.json() rejects: control enters the catch block.
Upload_bodyFails_run(k) ==
  /\ ~Chat_busy
  /\ k \in 1..Len(uploads)
  /\ uploads[k].pc \in {"text", "json"}
  /\ uploads' = [uploads EXCEPT
                   ![k] = Throw(@, IF uploads[k].pc = "text" THEN HttpError
                                   ELSE ParseError)]
  /\ lastCall' = CallNone
  /\ UNCHANGED <<personality, sessionId, summary, messages,
                 input, isTyping, uploading, file, calls, sent, nUploads>>

\* Upload_bodyFails: the step above, taken by the mounted Chat.
Upload_bodyFails(k) ==
  /\ mounted = "Chat"
  /\ Upload_bodyFails_run(k)
  /\ UNCHANGED <<mounted, duVars, cwVars>>

\* res.json() resolves with data; lines 65-68: setSessionId(data.session_id)
\* and setSummary(data.summary || ""); reading a field of null throws.
Upload_jsonResolve_run(k, data) ==
  /\ ~Chat_busy
  /\ k \in 1..Len(uploads)
  /\ uploads[k].pc = "json"
  /\ IF data.json = "null"
       THEN /\ uploads' = [uploads EXCEPT
                             ![k] = Throw([@ EXCEPT !.data = data], TypeError)]
            /\ UNCHANGED <<sessionId, summary>>
       ELSE /\ sessionId' = data.session_id
            /\ summary' = SummaryOf(data)
            /\ uploads' = [uploads EXCEPT ![k].pc = "finally",
                                          ![k].data = data]
  /\ lastCall' = CallNone
  /\ UNCHANGED <<personality, messages, input, isTyping,
                 uploading, file, calls, sent, nUploads>>

\* Upload_jsonResolve: the step above, taken by the mounted Chat.
Upload_jsonResolve(k, data) ==
  /\ mounted = "Chat"
  /\ Upload_jsonResolve_run(k, data)
  /\ UNCHANGED <<mounted, duVars, cwVars>>

\* Variant of the catch block that only logs the error.
Upload_catch_logOnly(k) ==
  /\ mounted = "Chat"
  /\ k \in 1..Len(uploads)
  /\ uploads[k].pc = "catch"
  /\ uploads' = [uploads EXCEPT ![k].pc = "finally"]
  /\ lastCall' = CallNone
  /\ UNCHANGED <<mounted, duVars, cwVars, personality, sessionId, summary, messages,
                 input, isTyping, uploading, file, calls, sent, nUploads>>

\* lines 69-78: the catch block appends the upload error message.
Upload_catch_run(k) ==
  /\ k \in 1..Len(uploads)
  /\ uploads[k].pc = "catch"
  /\ messages' = ArrayPush(messages, AssistantMsg(UploadErrorText))
  /\ uploads' = [uploads EXCEPT ![k].pc = "finally"]
  /\ lastCall' = CallNone
  /\ UNCHANGED <<personality, sessionId, summary, input,
                 isTyping, uploading, file, calls, sent, nUploads>>

\* Upload_catch: the step above, taken by the mounted Chat.
Upload_catch(k) ==
  /\ mounted = "Chat"
  /\ Upload_catch_run(k)
  /\ UNCHANGED <<mounted, duVars, cwVars>>

\* Variant of the finally block that does not clear uploading.
Upload_finally_keepsUploading(k) ==
  /\ mounted = "Chat"
  /\ k \in 1..Len(uploads)
  /\ uploads[k].pc = "finally"
  /\ uploads' = RemoveAt(uploads, k)
  /\ lastCall' = CallNone
  /\ UNCHANGED <<mounted, duVars, cwVars, personality, sessionId, summary,
                 messages, input, isTyping, uploading, file, calls, sent,
                 nUploads>>

\* lines 79-81: finally { setUploading(false) }; the invocation returns.
Upload_finally_run(k) ==
  /\ k \in 1..Len(uploads)
  /\ uploads[k].pc = "finally"
  /\ uploading' = FALSE
  /\ uploads' = RemoveAt(uploads, k)
  /\ lastCall' = CallNone
  /\ UNCHANGED <<personality, sessionId, summary, messages,
                 input, isTyping, file, calls, sent, nUploads>>

\* Upload_finally: the step above, taken by the mounted Chat.
Upload_finally(k) ==
  /\ mounted = "Chat"
  /\ Upload_finally_run(k)
  /\ UNCHANGED <<mounted, duVars, cwVars>>

\* onChange of the text box: setInput(e.target.value).  The box exists only
\* past `if (!sessionId) return <upload screen>` and is rendered with
\* `disabled={isTyping}`.
Chat_setInput_run(v) ==
  /\ ~Chat_busy
  /\ ~NoSession
  /\ ~isTyping
  /\ input' = v
  /\ lastCall' = CallNone
  /\ UNCHANGED <<personality, sessionId, summary, messages,
                 isTyping, uploading, file, calls, sent, uploads, nUploads>>

\* Chat_setInput: the step above, taken by the mounted Chat.
Chat_setInput(v) ==
  /\ mounted = "Chat"
  /\ Chat_setInput_run(v)
  /\ UNCHANGED <<mounted, duVars, cwVars>>

\* sendMessage(useResearch), up to `await fetch(...)`
Chat_sendMessage_run(useResearch) ==
  /\ ~Chat_busy
  /\ IF Chat_ignored
       THEN /\ lastCall' = (IF Trim(input) = <<>> THEN CallIgnoredEmpty
                            ELSE CallIgnoredSending)
            /\ UNCHANGED <<messages, input, isTyping, calls, sent>>
       ELSE IF NoSession
         THEN /\ GuidanceCount(messages) + Len(sent) < MaxAsks
              /\ messages' = ArrayPush(messages, AssistantMsg(GuidanceText))
              /\ lastCall' = CallGuidance
              /\ UNCHANGED <<input, isTyping, calls, sent>>
         ELSE LET userMsg == Str(Trim(input))
                  idx == IF useResearch THEN PlaceholderIndexOf(messages)
                         ELSE NoIndex
                  withUser == ArrayPush(messages, UserMsg(userMsg))
                  req == ChatRequest(userMsg, sessionId, personality,
                                     useResearch)
              IN /\ GuidanceCount(messages) + Len(sent) < MaxAsks
                 /\ input' = <<>>
                 /\ isTyping' = TRUE
                 /\ messages' = (IF useResearch
                                   THEN ArrayPush(withUser, PlaceholderMsg)
                                   ELSE withUser)
                 /\ sent' = Append(sent, req)
                 /\ calls' = Append(calls,
                               Frame(req, messages, idx, "fetch"))
                 /\ lastCall' = CallDispatched
  /\ UNCHANGED <<personality, sessionId, summary, uploading,
                 file, uploads, nUploads>>

\* Chat_sendMessage: the step above, taken by the mounted Chat.
Chat_sendMessage(useResearch) ==
  /\ mounted = "Chat"
  /\ Chat_sendMessage_run(useResearch)
  /\ UNCHANGED <<mounted, duVars, cwVars>>

\* fetch rejects (network error): control enters the catch block.
Chat_fetchReject_run(k) ==
  /\ ~Chat_busy
  /\ k \in 1..Len(calls)
  /\ calls[k].pc = "fetch"
  /\ calls' = Chat_throw(k, NetworkError)
  /\ lastCall' = CallNone
  /\ UNCHANGED <<personality, sessionId, summary, messages,
                 input, isTyping, uploading, file, sent, uploads, nUploads>>

\* Chat_fetchReject: the step above, taken by the mounted Chat.
Chat_fetchReject(k) ==
  /\ mounted = "Chat"
  /\ Chat_fetchReject_run(k)
  /\ UNCHANGED <<mounted, duVars, cwVars>>

\* fetch resolves with a response; `if (!response.ok)` awaits response.text(),
\* otherwise the handler awaits response.json().
Chat_fetchResolve_run(k, ok) ==
  /\ ~Chat_busy
  /\ k \in 1..Len(calls)
  /\ calls[k].pc = "fetch"
  /\ calls' = Chat_goto(k, IF ok THEN "json" ELSE "text")
  /\ lastCall' = CallNone
  /\ UNCHANGED <<personality, sessionId, summary, messages,
                 input, isTyping, uploading, file, sent, uploads, nUploads>>

\* Chat_fetchResolve: the step above, taken by the mounted Chat.
Chat_fetchResolve(k, ok) ==
  /\ mounted = "Chat"
  /\ Chat_fetchResolve_run(k, ok)
  /\ UNCHANGED <<mounted, duVars, cwVars>>

\* response.text() settles and the HTTP error is thrown (or the read itself
\* rejects), or response.json() rejects: control enters the catch block.
Chat_bodyFails_run(k) ==
  /\ ~Chat_busy
  /\ k \in 1..Len(calls)
  /\ calls[k].pc \in {"text", "json"}
  /\ calls' = Chat_throw(k, IF calls[k].pc = "text" THEN HttpError
                            ELSE ParseError)
  /\ lastCall' = CallNone
  /\ UNCHANGED <<personality, sessionId, summary, messages,
                 input, isTyping, uploading, file, sent, uploads, nUploads>>

\* Chat_bodyFails: the step above, taken by the mounted Chat.
Chat_bodyFails(k) ==
  /\ mounted = "Chat"
  /\ Chat_bodyFails_run(k)
  /\ UNCHANGED <<mounted, duVars, cwVars>>

\* response.json() resolves with data; lines 133-147: the answer is computed
\* and written into the transcript (this handler never reads tools_used).
Chat_jsonResolve_run(k, data) ==
  /\ ~Chat_busy
  /\ k \in 1..Len(calls)
  /\ calls[k].pc = "json"
  /\ IF ReadThrows(data)
       THEN /\ calls' = [calls EXCEPT
                           ![k] = Throw([@ EXCEPT !.data = data], TypeError)]
            /\ UNCHANGED messages
       ELSE /\ calls' = [calls EXCEPT ![k].pc = "finally",
                                      ![k].data = data,
                                      ![k].answer = AnswerOf(data)]
            /\ messages' = Reconcile(messages, calls[k], AnswerOf(data))
  /\ lastCall' = CallNone
  /\ UNCHANGED <<personality, sessionId, summary, input,
                 isTyping, uploading, file, sent, uploads, nUploads>>

\* Chat_jsonResolve: the step above, taken by the mounted Chat.
Chat_jsonResolve(k, data) ==
  /\ mounted = "Chat"
  /\ Chat_jsonResolve_run(k, data)
  /\ UNCHANGED <<mounted, duVars, cwVars>>

\* lines 148-162: the catch block writes the fixed error text.
Chat_catch_run(k) ==
  /\ k \in 1..Len(calls)
  /\ calls[k].pc = "catch"
  /\ messages' = Reconcile(messages, calls[k], ChatErrorText)
  /\ calls' = Chat_goto(k, "finally")
  /\ lastCall' = CallNone
  /\ UNCHANGED <<personality, sessionId, summary, input,
                 isTyping, uploading, file, sent, uploads, nUploads>>

\* Chat_catch: the step above, taken by the mounted Chat.
Chat_catch(k) ==
  /\ mounted = "Chat"
  /\ Chat_catch_run(k)
  /\ UNCHANGED <<mounted, duVars, cwVars>>

\* lines 163-165: finally { setIsTyping(false) }; the invocation returns.
Chat_finally_run(k) ==
  /\ k \in 1..Len(calls)
  /\ calls[k].pc = "finally"
  /\ isTyping' = FALSE
  /\ calls' = RemoveAt(calls, k)
  /\ lastCall' = CallNone
  /\ UNCHANGED <<personality, sessionId, summary, messages,
                 input, uploading, file, sent, uploads, nUploads>>

\* Chat_finally: the step above, taken by the mounted Chat.
Chat_finally(k) ==
  /\ mounted = "Chat"
  /\ Chat_finally_run(k)
  /\ UNCHANGED <<mounted, duVars, cwVars>>

\* The state of Chat after its first render (lines 20-27).
Chat_Init ==
  /\ personality = "factual"
  /\ sessionId = Null
  /\ summary = ""
  /\ messages = <<>>
  /\ input = <<>>
  /\ isTyping = FALSE
  /\ uploading = FALSE
  /\ file = Null
  /\ calls = <<>>
  /\ sent = <<>>
  /\ lastCall = CallNone
  /\ uploads = <<>>
  /\ nUploads = 0

Chat_Next ==
  \/ \E v \in Personalities : handlePersonalityChange(v)
  \/ \E files \in FileLists : handleFileChange(files)
  \/ handleUpload
  \/ \E k \in 1..Len(uploads) : Upload_fetchReject(k)
  \/ \E k \in 1..Len(uploads), ok \in BOOLEAN : Upload_fetchResolve(k, ok)
  \/ \E k \in 1..Len(uploads) : Upload_bodyFails(k)
  \/ \E k \in 1..Len(uploads), data \in UploadBodies : Upload_jsonResolve(k, data)
  \/ \E k \in 1..Len(uploads) : Upload_catch(k)
  \/ \E k \in 1..Len(uploads) : Upload_finally(k)
  \/ \E v \in InputTexts : Chat_setInput(v)
  \/ \E r \in BOOLEAN : Chat_sendMessage(r)
  \/ \E k \in 1..Len(calls) : Chat_fetchReject(k)
  \/ \E k \in 1..Len(calls), ok \in BOOLEAN : Chat_fetchResolve(k, ok)
  \/ \E k \in 1..Len(calls) : Chat_bodyFails(k)
  \/ \E k \in 1..Len(calls), data \in ChatBodies : Chat_jsonResolve(k, data)
  \/ \E k \in 1..Len(calls) : Chat_catch(k)
  \/ \E k \in 1..Len(calls) : Chat_finally(k)

\* ------------------------------------------------------ DocumentUploader
\* onChange of the file input: `if (e.target.files) setFile(e.target.files[0])`
\* (the first element of an empty list is undefined).
DU_handleFileChange_run(files) ==
  /\ ~Busy(du_uploads)
  /\ du_file' = (IF Len(files) > 0 THEN files[1] ELSE Undefined)
  /\ UNCHANGED <<du_uploading, du_uploads, du_results, du_nUploads>>

\* DU_handleFileChange: the step above, taken by the mounted DocumentUploader.
DU_handleFileChange(files) ==
  /\ mounted = "DocumentUploader"
  /\ DU_handleFileChange_run(files)
  /\ UNCHANGED <<mounted, cwVars, chatVars>>

\* onClick of the upload button, rendered with disabled={uploading || !file};
\* handleUpload up to `await fetch(...)`.
DU_handleUpload_run ==
  /\ ~Busy(du_uploads)
  /\ ~(du_uploading \/ Falsy(du_file))
  /\ du_nUploads < MaxUploads
  /\ du_uploading' = TRUE
  /\ du_uploads' = Append(du_uploads, UploadFrame("fetch"))
  /\ du_nUploads' = du_nUploads + 1
  /\ UNCHANGED <<du_file, du_results>>

\* DU_handleUpload: the step above, taken by the mounted DocumentUploader.
DU_handleUpload ==
  /\ mounted = "DocumentUploader"
  /\ DU_handleUpload_run
  /\ UNCHANGED <<mounted, cwVars, chatVars>>

\* The upload fetch rejects (network error): control enters the catch block.
DU_fetchReject_run(k) ==
  /\ ~Busy(du_uploads)
  /\ k \in 1..Len(du_uploads)
  /\ du_uploads[k].pc = "fetch"
  /\ du_uploads' = [du_uploads EXCEPT ![k] = Throw(@, NetworkError)]
  /\ UNCHANGED <<du_file, du_uploading, du_results, du_nUploads>>

\* DU_fetchReject: the step above, taken by the mounted DocumentUploader.
DU_fetchReject(k) ==
  /\ mounted = "DocumentUploader"
  /\ DU_fetchReject_run(k)
  /\ UNCHANGED <<mounted, cwVars, chatVars>>

\* The upload fetch resolves: `if (!res.ok)` throws at once, otherwise the
\* handler awaits res.json().
DU_fetchResolve_run(k, ok) ==
  /\ ~Busy(du_uploads)
  /\ k \in 1..Len(du_uploads)
  /\ du_uploads[k].pc = "fetch"
  /\ du_uploads' = (IF ok THEN [du_uploads EXCEPT ![k].pc = "json"]
                    ELSE [du_uploads EXCEPT ![k] = Throw(@, HttpError)])
  /\ UNCHANGED <<du_file, du_uploading, du_results, du_nUploads>>

\* DU_fetchResolve: the step above, taken by the mounted DocumentUploader.
DU_fetchResolve(k, ok) ==
  /\ mounted = "DocumentUploader"
  /\ DU_fetchResolve_run(k, ok)
  /\ UNCHANGED <<mounted, cwVars, chatVars>>

\* res.json() rejects (the body is not JSON).
DU_jsonReject_run(k) ==
  /\ ~Busy(du_uploads)
  /\ k \in 1..Len(du_uploads)
  /\ du_uploads[k].pc = "json"
  /\ du_uploads' = [du_uploads EXCEPT ![k] = Throw(@, ParseError)]
  /\ UNCHANGED <<du_file, du_uploading, du_results, du_nUploads>>

\* DU_jsonReject: the step above, taken by the mounted DocumentUploader.
DU_jsonReject(k) ==
  /\ mounted = "DocumentUploader"
  /\ DU_jsonReject_run(k)
  /\ UNCHANGED <<mounted, cwVars, chatVars>>

\* res.json() resolves with data and onUpload(data) is called; the callback
\* is the parent's code, and returns or throws.
DU_jsonResolve_run(k, data, throws) ==
  /\ ~Busy(du_uploads)
  /\ k \in 1..Len(du_uploads)
  /\ du_uploads[k].pc = "json"
  /\ du_results' = Append(du_results, data)
  /\ du_uploads' = (IF throws
                      THEN [du_uploads EXCEPT
                              ![k] = Throw([@ EXCEPT !.data = data], TypeError)]
                      ELSE [du_uploads EXCEPT ![k].pc = "finally",
                                              ![k].data = data])
  /\ UNCHANGED <<du_file, du_uploading, du_nUploads>>

\* DU_jsonResolve: the step above, taken by the mounted DocumentUploader.
DU_jsonResolve(k, data, throws) ==
  /\ mounted = "DocumentUploader"
  /\ DU_jsonResolve_run(k, data, throws)
  /\ UNCHANGED <<mounted, cwVars, chatVars>>

\* lines 38-40: the catch block logs the error.
DU_catch_run(k) ==
  /\ k \in 1..Len(du_uploads)
  /\ du_uploads[k].pc = "catch"
  /\ du_uploads' = [du_uploads EXCEPT ![k].pc = "finally"]
  /\ UNCHANGED <<du_file, du_uploading, du_results, du_nUploads>>

\* DU_catch: the step above, taken by the mounted DocumentUploader.
DU_catch(k) ==
  /\ mounted = "DocumentUploader"
  /\ DU_catch_run(k)
  /\ UNCHANGED <<mounted, cwVars, chatVars>>

\* lines 40-42: finally { setUploading(false) }; the invocation returns.
DU_finally_run(k) ==
  /\ k \in 1..Len(du_uploads)
  /\ du_uploads[k].pc = "finally"
  /\ du_uploading' = FALSE
  /\ du_uploads' = RemoveAt(du_uploads, k)
  /\ UNCHANGED <<du_file, du_results, du_nUploads>>

\* DU_finally: the step above, taken by the mounted DocumentUploader.
DU_finally(k) ==
  /\ mounted = "DocumentUploader"
  /\ DU_finally_run(k)
  /\ UNCHANGED <<mounted, cwVars, chatVars>>

\* The state of DocumentUploader after its first render (lines 14-15).
DU_Init ==
  /\ du_file = Null
  /\ du_uploading = FALSE
  /\ du_uploads = <<>>
  /\ du_results = <<>>
  /\ du_nUploads = 0

DU_Next ==
  \/ \E files \in FileLists : DU_handleFileChange(files)
  \/ DU_handleUpload
  \/ \E k \in 1..Len(du_uploads) : DU_fetchReject(k)
  \/ \E k \in 1..Len(du_uploads), ok \in BOOLEAN : DU_fetchResolve(k, ok)
  \/ \E k \in 1..Len(du_uploads) : DU_jsonReject(k)
  \/ \E k \in 1..Len(du_uploads), data \in UploadBodies, throws \in BOOLEAN :
       DU_jsonResolve(k, data, throws)
  \/ \E k \in 1..Len(du_uploads) : DU_catch(k)
  \/ \E k \in 1..Len(du_uploads) : DU_finally(k)

\* ------------------------------------------------------------ the system
\* One of the two components is mounted; ChatWindow gets its props.
Init ==
  /\ mounted \in {"ChatWindow", "Chat", "DocumentUploader"}
  /\ \E p \in (IF mounted = "ChatWindow" THEN CW_Props
                ELSE {<<"s1", "factual">>}) :
       /\ cw_sessionId = p[1]
       /\ cw_personality = p[2]
  /\ CW_Init
  /\ Chat_Init
  /\ DU_Init

Next == CW_Next \/ Chat_Next \/ DU_Next

Spec == Init /\ [][Next]_vars

\* The steps that settle an exchange in flight: the completion of the chat
\* service call in any way, and the synchronous tail of the handler.
CW_Settle ==
  \E k \in 1..Len(cw_calls) :
    \/ CW_fetchReject(k)
    \/ \E ok \in BOOLEAN : CW_fetchResolve(k, ok)
    \/ CW_textSettle(k)
    \/ CW_jsonReject(k)
    \/ \E data \in ChatBodies : CW_jsonResolve(k, data)
    \/ CW_toolsCheck(k)
    \/ CW_catch(k)
    \/ CW_finally(k)

Chat_Settle ==
  \E k \in 1..Len(calls) :
    \/ Chat_fetchReject(k)
    \/ \E ok \in BOOLEAN : Chat_fetchResolve(k, ok)
    \/ Chat_bodyFails(k)
    \/ \E data \in ChatBodies : Chat_jsonResolve(k, data)
    \/ Chat_catch(k)
    \/ Chat_finally(k)

\* The system under the assumption that every chat service call eventually
\* completes (JavaScript itself runs a resumed handler to its next await).
LiveSpec == Spec /\ WF_vars(CW_Settle) /\ WF_vars(Chat_Settle)

\* ------------------------------------------------- the two controllers
\* ChatWindow and Chat side by side, Chat with the session ChatWindow was
\* given (the state of Chat after a successful upload), both driven by the
\* same user events and the same outcomes of the chat service.  Each
\* handler runs its own synchronous tail.
PairInit ==
  /\ mounted = "Pair"
  /\ \E p \in CW_Props :
       /\ cw_sessionId = p[1]
       /\ cw_personality = p[2]
  /\ CW_Init
  /\ personality = cw_personality
  /\ sessionId = cw_sessionId
  /\ summary = (IF cw_sessionId = "s1" THEN "doc about cats" ELSE "")
  /\ messages = <<>>
  /\ input = <<>>
  /\ isTyping = FALSE
  /\ uploading = FALSE
  /\ file = "doc.pdf"
  /\ calls = <<>>
  /\ sent = <<>>
  /\ lastCall = CallNone
  /\ uploads = <<>>
  /\ nUploads = 1
  /\ DU_Init

\* The user types v in the text box of both.
Pair_setInput(v) ==
  /\ mounted = "Pair"
  /\ CW_setInput_run(v)
  /\ Chat_setInput_run(v)
  /\ UNCHANGED <<mounted, duVars>>

\* sendMessage(useResearch) is invoked in both.
Pair_sendMessage(useResearch) ==
  /\ mounted = "Pair"
  /\ CW_sendMessage_run(useResearch)
  /\ Chat_sendMessage_run(useResearch)
  /\ UNCHANGED <<mounted, duVars>>

\* The chat service is unreachable for both.
Pair_fetchReject(k) ==
  /\ mounted = "Pair"
  /\ CW_fetchReject_run(k)
  /\ Chat_fetchReject_run(k)
  /\ UNCHANGED <<mounted, duVars>>

\* The chat service answers both with the same status.
Pair_fetchResolve(k, ok) ==
  /\ mounted = "Pair"
  /\ CW_fetchResolve_run(k, ok)
  /\ Chat_fetchResolve_run(k, ok)
  /\ UNCHANGED <<mounted, duVars>>

\* The text of the non-success response settles for both.
Pair_textSettle(k) ==
  /\ mounted = "Pair"
  /\ CW_textSettle_run(k)
  /\ Chat_bodyFails_run(k)
  /\ UNCHANGED <<mounted, duVars>>

\* The body is not JSON for both.
Pair_jsonReject(k) ==
  /\ mounted = "Pair"
  /\ CW_jsonReject_run(k)
  /\ Chat_bodyFails_run(k)
  /\ UNCHANGED <<mounted, duVars>>

\* The body parses to the same data for both.
Pair_jsonResolve(k, data) ==
  /\ mounted = "Pair"
  /\ CW_jsonResolve_run(k, data)
  /\ Chat_jsonResolve_run(k, data)
  /\ UNCHANGED <<mounted, duVars>>

\* The next statement of the synchronous tail of ChatWindow.sendMessage.
Pair_CW_tail(k) ==
  /\ mounted = "Pair"
  /\ \/ CW_toolsCheck_run(k)
     \/ CW_catch_run(k)
     \/ CW_finally_run(k)
  /\ UNCHANGED <<mounted, duVars, chatVars>>

\* The next statement of the synchronous tail of Chat.sendMessage.
Pair_Chat_tail(k) ==
  /\ mounted = "Pair"
  /\ \/ Chat_catch_run(k)
     \/ Chat_finally_run(k)
  /\ UNCHANGED <<mounted, duVars, cwVars>>

PairNext ==
  \/ \E v \in InputTexts : Pair_setInput(v)
  \/ \E r \in BOOLEAN : Pair_sendMessage(r)
  \/ \E k \in 1..Len(cw_calls) : Pair_fetchReject(k)
  \/ \E k \in 1..Len(cw_calls), ok \in BOOLEAN : Pair_fetchResolve(k, ok)
  \/ \E k \in 1..Len(cw_calls) : Pair_textSettle(k)
  \/ \E k \in 1..Len(cw_calls) : Pair_jsonReject(k)
  \/ \E k \in 1..Len(cw_calls), data \in ChatBodies : Pair_jsonResolve(k, data)
  \/ \E k \in 1..Len(cw_calls) : Pair_CW_tail(k)
  \/ \E k \in 1..Len(calls) : Pair_Chat_tail(k)

PairSpec == PairInit /\ [][PairNext]_vars


\* ================================================================ claims
\* The 1-based position of the user message of the exchange of frame f.
UserPos(f) == Len(f.messages) + 1
\* The 1-based position of the assistant message of a research exchange.
Slot(f) == Len(f.messages) + 2

\* C1: at most one chat exchange is in flight at any time, and a sendMessage
\* invoked while the lifecycle is sending appends no message, dispatches no
\* request and leaves the lifecycle flag and the exchange in flight as they
\* are (in both components).
C1_Step ==
  /\ Len(cw_calls') <= 1
  /\ Len(calls') <= 1
  /\ (isLoading /\ cw_lastCall' # CallNone)
       => UNCHANGED <<cw_messages, cw_sent, isLoading, cw_calls>>
  /\ (isTyping /\ lastCall' # CallNone)
       => UNCHANGED <<messages, sent, isTyping, calls>>

C1_AtMostOneExchangeInFlight == [][C1_Step]_vars

\* sendMessage was invoked while an exchange was in flight, and returned at
\* its guard.  (The text box is cleared by the dispatch and disabled until the
\* exchange ends, so the input it found was empty.)
C1_Witness ==
  /\ cw_lastCall = CallIgnoredEmpty
  /\ CW_ignored
  /\ isLoading
  /\ Len(cw_calls) = 1
  /\ cw_calls[1].pc = "fetch"
  /\ Len(cw_sent) = 1

\* C2: the lifecycle flag is raised exactly by an accepted sendMessage and
\* lowered exactly by the return of that invocation (once per exchange), and,
\* the chat service call completing, sending always leads to idle.
C2_Step ==
  /\ (Len(cw_calls') # Len(cw_calls)) <=> (isLoading' # isLoading)
  /\ (~isLoading /\ isLoading')
       => (cw_lastCall' = CallDispatched /\ Len(cw_calls') = Len(cw_calls) + 1)
  /\ (isLoading /\ ~isLoading')
       => (Len(cw_calls') = Len(cw_calls) - 1
           /\ \E k \in 1..Len(cw_calls) : cw_calls[k].pc = "finally")
  /\ (cw_lastCall' = CallDispatched) => (~isLoading /\ isLoading')
  /\ (Len(calls') # Len(calls)) <=> (isTyping' # isTyping)
  /\ (~isTyping /\ isTyping')
       => (lastCall' = CallDispatched /\ Len(calls') = Len(calls) + 1)
  /\ (isTyping /\ ~isTyping')
       => (Len(calls') = Len(calls) - 1
           /\ \E k \in 1..Len(calls) : calls[k].pc = "finally")
  /\ (lastCall' = CallDispatched) => (~isTyping /\ isTyping')

C2_SendingLeadsToIdle ==
  /\ [][C2_Step]_vars
  /\ isLoading ~> ~isLoading
  /\ isTyping ~> ~isTyping

\* An exchange whose call failed has returned and the lifecycle is idle.
C2_Witness ==
  /\ ~isLoading
  /\ cw_calls = <<>>
  /\ Len(cw_sent) = 1
  /\ Len(cw_messages) = 2
  /\ cw_messages[2] = AssistantMsg(ChatErrorText)

\* C3: every completed exchange has grown the transcript by exactly 2
\* messages, the user message followed by exactly one assistant message
\* holding the answer or the fixed error text; a research exchange has
\* grown it by 2 from dispatch on.
C3_Of(msgs, frames) ==
  \A k \in 1..Len(frames) :
    LET f == frames[k] IN
      /\ f.request.research => Len(msgs) = Len(f.messages) + 2
      /\ f.pc = "finally" =>
           /\ Len(msgs) = Len(f.messages) + 2
           /\ msgs[UserPos(f)] = UserMsg(f.request.question)
           /\ msgs[Slot(f)] = AssistantMsg(IF f.error = NoError THEN f.answer
                                           ELSE ChatErrorText)

C3_ExchangeGrowsTranscriptByTwo ==
  /\ C3_Of(cw_messages, cw_calls)
  /\ C3_Of(messages, calls)

\* C4: throughout a research exchange the transcript is the transcript the
\* exchange started from, followed by its user message and one assistant
\* message at the captured index: the pending placeholder until the
\* response is reconciled, the answer or the error text (not pending) once
\* the handler is done.  Length and all other messages are unchanged.
C4_Of(msgs, frames) ==
  \A k \in 1..Len(frames) :
    LET f == frames[k] IN
      f.request.research =>
        /\ Len(msgs) = Len(f.messages) + 2
        /\ SubSeq(msgs, 1, Len(f.messages)) = f.messages
        /\ msgs[UserPos(f)] = UserMsg(f.request.question)
        /\ f.placeholderIndex + 1 = Slot(f)
        /\ f.pc \in {"fetch", "text", "json"} => msgs[Slot(f)] = PlaceholderMsg
        /\ f.pc = "finally" =>
             msgs[Slot(f)] = AssistantMsg(IF f.error = NoError THEN f.answer
                                          ELSE ChatErrorText)

C4_ReconciliationOverwritesPlaceholder ==
  /\ C4_Of(cw_messages, cw_calls)
  /\ C4_Of(messages, calls)

\* A research exchange that started from a non-empty transcript has had its
\* placeholder overwritten by the answer.
C4_Witness ==
  /\ Len(calls) = 1
  /\ calls[1].request.research
  /\ calls[1].pc = "finally"
  /\ calls[1].error = NoError
  /\ Len(calls[1].messages) >= 1
  /\ messages[Slot(calls[1])] = AssistantMsg("a1")

\* C5: a message that is not pending is never modified and none is removed
\* (so a placeholder is written once: the write clears pending), and the
\* placeholder of a research exchange has been written when the handler is
\* done.
C5_Of(msgs, msgs2, frames) ==
  /\ \A i \in 1..Len(msgs) :
       /\ i <= Len(msgs2)
       /\ (msgs2[i] # msgs[i]) => msgs[i].isLoading
  /\ \A k \in 1..Len(frames) :
       (frames[k].request.research /\ frames[k].pc = "finally")
         => (Slot(frames[k]) <= Len(msgs) /\ ~msgs[Slot(frames[k])].isLoading)

C5_Step ==
  /\ C5_Of(cw_messages, cw_messages', cw_calls)
  /\ C5_Of(messages, messages', calls)

C5_PlaceholderReplacedExactlyOnce == [][C5_Step]_vars

\* C6: a handler in its catch block writes the fixed error text over the
\* message at the placeholder's position in research mode and appends it
\* otherwise, dispatches nothing, and then returns with the lifecycle idle;
\* every failure of the call is in the catch block or past it.
C6_Of(msgs, msgs2, frames, frames2, snt, snt2, sending2) ==
  \A k \in 1..Len(frames) :
    LET f == frames[k] IN
      /\ (f.error # NoError) => f.pc \in {"catch", "finally"}
      /\ f.pc = "catch" =>
           /\ f.error # NoError
           /\ snt2 = snt
           /\ frames2 = [frames EXCEPT ![k].pc = "finally"]
           /\ IF f.request.research
                THEN /\ Slot(f) <= Len(msgs)
                     /\ msgs[UserPos(f)] = UserMsg(f.request.question)
                     /\ msgs[Slot(f)].sender = "assistant"
                     /\ msgs2 = [msgs EXCEPT
                                   ![Slot(f)] = AssistantMsg(ChatErrorText)]
                ELSE msgs2 = Append(msgs, AssistantMsg(ChatErrorText))
      /\ f.pc = "finally" =>
           /\ snt2 = snt
           /\ msgs2 = msgs
           /\ frames2 = RemoveAt(frames, k)
           /\ sending2 = FALSE

C6_Step ==
  /\ C6_Of(cw_messages, cw_messages', cw_calls, cw_calls', cw_sent, cw_sent',
           isLoading')
  /\ C6_Of(messages, messages', calls, calls', sent, sent', isTyping')

C6_FailureWritesErrorText == [][C6_Step]_vars

\* A research exchange answered with a non-success status is done: the error
\* text is where the placeholder was.
C6_Witness ==
  /\ Len(calls) = 1
  /\ calls[1].request.research
  /\ calls[1].pc = "finally"
  /\ calls[1].error = HttpError
  /\ Len(calls[1].messages) >= 1
  /\ messages[Slot(calls[1])] = AssistantMsg(ChatErrorText)

\* C7: when an exchange completes and the lifecycle becomes idle, the
\* advisory flag is set only if the response of that exchange reported the
\* research tool; the flag does not change while idle.
C7_Step ==
  /\ \A k \in 1..Len(cw_calls) :
       (cw_calls[k].pc = "finally" /\ ~isLoading' /\ toolUsed' # Null)
         => (cw_calls[k].error = NoError /\ ToolsCheck(cw_calls[k].data))
  /\ (~isLoading /\ ~isLoading') => toolUsed' = toolUsed

C7_AdvisoryFlagReflectsLatestExchange == [][C7_Step]_vars

\* C8: every dispatched request has its user message in the transcript: the
\* n-th user message holds the question of the n-th request, and the
\* message after it, if any, is an assistant message; a user message is last
\* only while its non-research exchange is in flight.
C8_Users(msgs) == { i \in 1..Len(msgs) : msgs[i].sender = "user" }

C8_Nth(msgs, n) ==
  CHOOSE i \in C8_Users(msgs) :
    Cardinality({ j \in C8_Users(msgs) : j < i }) = n - 1

C8_Of(msgs, snt, frames) ==
  /\ Cardinality(C8_Users(msgs)) = Len(snt)
  /\ \A n \in 1..Len(snt) :
       LET i == C8_Nth(msgs, n) IN
         /\ msgs[i] = UserMsg(snt[n].question)
         /\ i < Len(msgs) => msgs[i + 1].sender = "assistant"
         /\ i = Len(msgs) =>
              /\ n = Len(snt)
              /\ \E k \in 1..Len(frames) :
                   /\ frames[k].request = snt[n]
                   /\ ~frames[k].request.research
                   /\ frames[k].pc # "finally"
  /\ \A k \in 1..Len(frames) :
       /\ UserPos(frames[k]) <= Len(msgs)
       /\ msgs[UserPos(frames[k])] = UserMsg(frames[k].request.question)
       /\ frames[k].request = snt[Len(snt)]

C8_UserMessagePrecedesAnswer ==
  /\ C8_Of(cw_messages, cw_sent, cw_calls)
  /\ C8_Of(messages, sent, calls)

\* The second request is in flight and its user message is the last message.
C8_Witness ==
  /\ Len(sent) = 2
  /\ Len(calls) = 1
  /\ calls[1].pc = "fetch"
  /\ ~calls[1].request.research
  /\ Len(messages) >= 4
  /\ messages[Len(messages)] = UserMsg("a b")

\* C9: no step removes a message or changes the sender at a position; the
\* only message a step may change is the assistant message of the research
\* exchange in flight, in place.
C9_Of(msgs, msgs2, frames) ==
  /\ Len(msgs2) >= Len(msgs)
  /\ \A i \in 1..Len(msgs) :
       /\ msgs2[i].sender = msgs[i].sender
       /\ (msgs2[i] # msgs[i])
            => \E k \in 1..Len(frames) :
                 frames[k].request.research /\ Slot(frames[k]) = i

C9_Step ==
  /\ C9_Of(cw_messages, cw_messages', cw_calls)
  /\ C9_Of(messages, messages', calls)

C9_TranscriptAppendOrdered == [][C9_Step]_vars

\* The placeholder of a second exchange has been reconciled in place.
C9_Witness ==
  /\ Len(cw_calls) = 1
  /\ cw_calls[1].request.research
  /\ cw_calls[1].pc = "finally"
  /\ Len(cw_calls[1].messages) = 2
  /\ Len(cw_messages) = 4
  /\ ~cw_messages[4].isLoading

\* C11: a sendMessage invoked while the input is empty after trimming is a
\* no-op in every state of both components: the transcript, the lifecycle
\* flag, the advisory flag and the session are unchanged, no request is
\* dispatched and no invocation is left suspended.
C11_Step ==
  /\ (cw_lastCall' # CallNone /\ Trim(cw_input) = <<>>)
       => UNCHANGED <<cw_messages, isLoading, toolUsed, cw_sessionId,
                      cw_personality, cw_sent, cw_calls, cw_input>>
  /\ (lastCall' # CallNone /\ Trim(input) = <<>>)
       => UNCHANGED <<messages, isTyping, sessionId, summary, personality,
                      sent, calls, input, uploading, uploads>>

C11_EmptyQuestionIsNoOp == [][C11_Step]_vars

\* With a session and the lifecycle idle, a blank (not empty) input was sent
\* and ignored.
C11_Witness ==
  /\ lastCall = CallIgnoredEmpty
  /\ input = <<" ", " ">>
  /\ ~Falsy(sessionId)
  /\ ~isTyping
  /\ sent = <<>>

\* C12: the session is created at most once.  While there is no session
\* (sessionId is null, or not an id: the code tests `!sessionId`), the only
\* step that creates one is the resolution of an upload, which sets
\* sessionId and summary together from its response; once there is a
\* session, no upload is started and no step (of an upload or of a chat
\* exchange) changes sessionId (neither back to null nor to another id) or
\* summary.
C12_Step ==
  /\ ~Falsy(sessionId) => UNCHANGED <<sessionId, summary>>
  /\ sessionId # Null => sessionId' # Null
  /\ (Falsy(sessionId) /\ ~Falsy(sessionId')) =>
       \E k \in 1..Len(uploads) :
         /\ uploads[k].pc = "json"
         /\ Len(uploads') = Len(uploads)
         /\ uploads'[k].pc = "finally"
         /\ uploads'[k].error = NoError
         /\ sessionId' = uploads'[k].data.session_id
         /\ summary' = SummaryOf(uploads'[k].data)
  /\ ~Falsy(sessionId) => nUploads' = nUploads

C12_SessionCreatedOnce == [][C12_Step]_vars

\* After a first upload that created no session, a second one created the
\* session, and a chat exchange has completed since.
C12_Witness ==
  /\ sessionId = "s1"
  /\ summary = "doc about cats"
  /\ nUploads = 2
  /\ uploads = <<>>
  /\ Len(sent) >= 1
  /\ calls = <<>>
  /\ Len(messages) >= 3

\* C13: an upload that fails (network error, non-success status, unreadable
\* body) creates no session: from the failure to the return of the handler
\* sessionId stays null and summary and personality are unchanged, and the
\* handler appends exactly one message to the transcript, the assistant
\* message "Error: Failed to summarize document."; nothing else appends it.
C13_Step ==
  /\ \A k \in 1..Len(uploads) :
       LET f == uploads[k] IN
         /\ (f.error # NoError) =>
              /\ f.pc \in {"catch", "finally"}
              /\ Falsy(sessionId)
              /\ UNCHANGED <<sessionId, summary, personality>>
         /\ (f.pc \in {"fetch", "text"}) =>
              \/ UNCHANGED <<uploads, sessionId, summary>>
              \/ /\ uploads' = [uploads EXCEPT ![k].pc = "text"]
                 /\ f.pc = "fetch"
                 /\ UNCHANGED <<messages, sessionId, summary, personality>>
              \/ /\ uploads' = [uploads EXCEPT ![k].pc = "json"]
                 /\ f.pc = "fetch"
                 /\ UNCHANGED <<messages, sessionId, summary, personality>>
              \/ /\ uploads' = [uploads EXCEPT ![k].pc = "catch",
                                               ![k].error = IF f.pc = "fetch"
                                                              THEN NetworkError
                                                              ELSE HttpError]
                 /\ UNCHANGED <<messages, sessionId, summary, personality>>
         /\ (f.pc = "catch") =>
              /\ f.error # NoError
              /\ messages' = Append(messages, AssistantMsg(UploadErrorText))
              /\ uploads' = [uploads EXCEPT ![k].pc = "finally"]
         /\ (f.pc = "finally" /\ f.error # NoError) =>
              /\ UNCHANGED messages
              /\ uploads' = RemoveAt(uploads, k)
  /\ (Len(messages') > Len(messages)
      /\ messages'[Len(messages')] = AssistantMsg(UploadErrorText))
       => \E k \in 1..Len(uploads) : uploads[k].pc = "catch"

C13_UploadFailureLeavesNoSession == [][C13_Step]_vars

\* Two uploads have failed, the second with a non-success status, after the
\* personality was changed: two error messages and no session.
C13_Witness ==
  /\ nUploads = 2
  /\ Len(uploads) = 1
  /\ uploads[1].pc = "finally"
  /\ uploads[1].error = HttpError
  /\ messages = <<AssistantMsg(UploadErrorText), AssistantMsg(UploadErrorText)>>
  /\ sessionId = Null
  /\ summary = ""
  /\ personality = "humorous"

\* C14: the step in which an upload succeeds (its body is read as an object)
\* sets sessionId to the session_id of the response and summary to its
\* summary (the empty text if the response has none), and leaves personality
\* and the transcript as they are; so does the return of that handler, which
\* finds sessionId still equal to the response's.
C14_Step ==
  \A k \in 1..Len(uploads) :
    LET f == uploads[k] IN
      /\ (f.pc = "json" /\ Len(uploads') = Len(uploads)
          /\ uploads'[k].pc = "finally") =>
           LET data == uploads'[k].data IN
             /\ data.json = "object"
             /\ sessionId' = data.session_id
             /\ summary' = (IF data.summary \in {Undefined, ""} THEN ""
                            ELSE data.summary)
             /\ UNCHANGED <<personality, messages>>
      /\ (f.pc = "finally" /\ f.error = NoError) =>
           /\ sessionId = f.data.session_id
           /\ uploads' = RemoveAt(uploads, k)
           /\ UNCHANGED <<sessionId, summary, personality, messages>>

C14_UploadSuccessSetsSession == [][C14_Step]_vars

\* The upload answered {session_id: "s1", summary: "doc about cats"}: the
\* session has these values, the transcript is empty and the personality is
\* the one selected before.
C14_Witness ==
  /\ Len(uploads) = 1
  /\ uploads[1].pc = "finally"
  /\ uploads[1].data = UploadBody("object", "s1", "doc about cats")
  /\ sessionId = "s1"
  /\ summary = "doc about cats"
  /\ messages = <<>>
  /\ personality = "friendly"

\* C15: personality changes only while there is no session: no step taken
\* with a session changes it, so it keeps the value it had when the session
\* was created, and every chat request dispatched so far carries the
\* personality currently selected.
C15_Step ==
  /\ ~Falsy(sessionId) => personality' = personality
  /\ (Falsy(sessionId) /\ ~Falsy(sessionId')) => personality' = personality

C15_PersonalityFrozenBySession ==
  /\ [][C15_Step]_vars
  /\ [](\A n \in 1..Len(sent) : sent[n].personality = personality)

\* The personality was changed before the upload, and two exchanges later
\* it is still the one the session was created with.
C15_Witness ==
  /\ ~Falsy(sessionId)
  /\ personality = "humorous"
  /\ Len(sent) = 2
  /\ sent[1].personality = "humorous"
  /\ sent[2].personality = "humorous"
  /\ calls = <<>>

\* C16: a request is dispatched only by an accepted sendMessage, one per
\* invocation, and it carries: as question the input without its leading and
\* trailing white space, which is also the content of the user message the
\* invocation appends; as session_id the current sessionId, which is an id;
\* the personality currently selected; and research set exactly when the
\* invocation ran in research mode (it appended the placeholder).
\* t is cs without its leading and trailing white space.
C16_IsTrimOf(cs, t) ==
  \E i \in 0..Len(cs), j \in 0..Len(cs) :
    /\ i + j <= Len(cs)
    /\ t = SubSeq(cs, i + 1, Len(cs) - j)
    /\ \A n \in 1..i : cs[n] \in WhiteSpace
    /\ \A n \in (Len(cs) - j + 1)..Len(cs) : cs[n] \in WhiteSpace
    /\ t # <<>> => (t[1] \notin WhiteSpace /\ t[Len(t)] \notin WhiteSpace)

C16_Of(inp, msgs, msgs2, snt, snt2, sid, pers, call2) ==
  (snt2 # snt \/ call2 = CallDispatched) =>
    /\ call2 = CallDispatched
    /\ Len(snt2) = Len(snt) + 1
    /\ SubSeq(snt2, 1, Len(snt)) = snt
    /\ LET req == snt2[Len(snt2)] IN
         /\ \E a \in 1..(Len(inp) + 1), b \in 0..Len(inp) :
              /\ C16_IsTrimOf(inp, SubSeq(inp, a, b))
              /\ req.question = Str(SubSeq(inp, a, b))
         /\ req.question # ""
         /\ Len(msgs2) > Len(msgs)
         /\ msgs2[Len(msgs) + 1] = UserMsg(req.question)
         /\ req.session_id = sid
         /\ sid \notin {Null, Undefined, ""}
         /\ req.personality = pers
         /\ req.research \in BOOLEAN
         /\ req.research <=> (Len(msgs2) = Len(msgs) + 2
                              /\ msgs2[Len(msgs2)] = PlaceholderMsg)
         /\ ~req.research => Len(msgs2) = Len(msgs) + 1

C16_Step ==
  /\ C16_Of(cw_input, cw_messages, cw_messages', cw_sent, cw_sent',
            cw_sessionId, cw_personality, cw_lastCall')
  /\ C16_Of(input, messages, messages', sent, sent', sessionId, personality,
            lastCall')

C16_RequestCarriesExchange == [][C16_Step]_vars

\* A second request was just dispatched, in research mode, for the session
\* "s2" and a personality chosen before the upload.
C16_Witness ==
  /\ lastCall = CallDispatched
  /\ Len(sent) = 2
  /\ sent[2] = ChatRequest("a b", "s2", "friendly", TRUE)
  /\ ~sent[1].research
  /\ sessionId = "s2"
  /\ personality = "friendly"
  /\ messages[Len(messages) - 1] = UserMsg("a b")

\* C17: a message is pending only while a research exchange awaits its
\* response.  While it does, exactly one message is pending: the last
\* message of the transcript, an assistant message at the index captured at
\* dispatch (the transcript length before the ask, plus 1).  While the
\* lifecycle is idle, while a non-research exchange awaits its response, and
\* once a handler has written its result, no message is pending; only one
\* invocation is suspended while the lifecycle is sending.
C17_Pending(msgs) == { i \in 1..Len(msgs) : msgs[i].isLoading }

C17_Of(msgs, frames, sending) ==
  /\ ~sending => (frames = <<>> /\ C17_Pending(msgs) = {})
  /\ sending => Len(frames) = 1
  /\ \A k \in 1..Len(frames) :
       LET f == frames[k] IN
         /\ (f.pc \in {"fetch", "text", "json"} /\ f.request.research) =>
              /\ C17_Pending(msgs) = {Len(msgs)}
              /\ msgs[Len(msgs)].sender = "assistant"
              /\ f.placeholderIndex = Len(f.messages) + 1
              /\ Len(msgs) = f.placeholderIndex + 1
         /\ (f.pc \in {"fetch", "text", "json"} /\ ~f.request.research) =>
              /\ C17_Pending(msgs) = {}
              /\ f.placeholderIndex = NoIndex
         /\ (f.pc \in {"tools", "finally"}) => C17_Pending(msgs) = {}
         /\ (f.pc = "catch") =>
              /\ C17_Pending(msgs) \subseteq {f.placeholderIndex + 1}
              /\ ~f.request.research => C17_Pending(msgs) = {}

C17_PendingOnlyDuringResearch ==
  /\ C17_Of(cw_messages, cw_calls, isLoading)
  /\ C17_Of(messages, calls, isTyping)

\* The second exchange, in research mode, awaits its body: its placeholder
\* is the only pending message, and the last of five or more.
C17_Witness ==
  /\ Len(calls) = 1
  /\ calls[1].pc = "json"
  /\ calls[1].request.research
  /\ Len(sent) = 2
  /\ Len(messages) >= 5
  /\ C17_Pending(messages) = {Len(messages)}

\* C18: the step that handles a successful response (a body that parses to
\* other than null) writes one assistant message, not pending: over the
\* placeholder in research mode, appended otherwise.  Its content is the
\* returned answer, or "*(No answer)*" if the answer is empty or missing;
\* nothing else in the transcript changes in that step, and that message is
\* the exchange's assistant message when the handler returns without having
\* caught an exception.
C18_Expected(data) ==
  IF data.json = "object" /\ data.answer \notin {Undefined, ""}
    THEN data.answer ELSE NoAnswerText

C18_Of(msgs, msgs2, frames, frames2) ==
  \A k \in 1..Len(frames) :
    LET f == frames[k] IN
      /\ (f.pc = "json" /\ Len(frames2) = Len(frames)
          /\ frames2[k].pc \in {"tools", "finally"}) =>
           LET g == frames2[k]
               written == Msg("assistant", C18_Expected(g.data), FALSE)
           IN /\ g.data.json \in {"object", "number"}
              /\ g.error = NoError
              /\ g.answer = C18_Expected(g.data)
              /\ IF f.request.research
                   THEN /\ Slot(f) <= Len(msgs)
                        /\ msgs2 = [msgs EXCEPT ![Slot(f)] = written]
                   ELSE msgs2 = Append(msgs, written)
      /\ (f.pc = "finally" /\ f.error = NoError) =>
           /\ Len(msgs) = Len(f.messages) + 2
           /\ msgs[Slot(f)] = Msg("assistant", C18_Expected(f.data), FALSE)

C18_Step ==
  /\ C18_Of(cw_messages, cw_messages', cw_calls, cw_calls')
  /\ C18_Of(messages, messages', calls, calls')

C18_EmptyAnswerFallsBack == [][C18_Step]_vars

\* A research exchange got a successful response with an empty answer: the
\* fixed marker is where the placeholder was.
C18_Witness ==
  /\ Len(calls) = 1
  /\ calls[1].pc = "finally"
  /\ calls[1].request.research
  /\ calls[1].data.json = "object"
  /\ calls[1].data.answer = ""
  /\ messages[Slot(calls[1])] = AssistantMsg(NoAnswerText)
  /\ Len(messages) = Slot(calls[1])

\* C19: the transcript is a (possibly empty) prefix of assistant messages
\* followed, from its first user message on, by strictly alternating user
\* and assistant messages.  While the lifecycle is idle every user message
\* is immediately followed by exactly one assistant message (the transcript
\* ends with an assistant message); while sending, only the last user
\* message may be unpaired.
C19_Of(msgs, sending) ==
  LET users == { i \in 1..Len(msgs) : msgs[i].sender = "user" }
      first == IF users = {} THEN Len(msgs) + 1
               ELSE CHOOSE i \in users : \A j \in users : i <= j
  IN /\ \A i \in 1..Len(msgs) :
          msgs[i].sender = (IF i >= first /\ (i - first) % 2 = 0 THEN "user"
                            ELSE "assistant")
     /\ ~sending => (Len(msgs) + 1 - first) % 2 = 0

C19_TranscriptAlternates ==
  /\ C19_Of(cw_messages, isLoading)
  /\ C19_Of(messages, isTyping)

\* C20: driven by the same sendMessage calls and the same outcomes of the
\* chat service, ChatWindow and Chat (with a session) hold the same
\* messages and the same idle/sending state after every step (whenever
\* neither handler is in the middle of its synchronous tail).
C20_ControllersEquivalent ==
  (mounted = "Pair" /\ ~Busy(cw_calls) /\ ~Busy(calls)) =>
    /\ cw_messages = messages
    /\ isLoading = isTyping

\* C21: in Chat and in DocumentUploader at most one upload is in flight, and
\* the uploading flag is true exactly while one is: it is raised by the step
\* that starts an upload (only when it is down) and lowered by the return of
\* the handler, which every completion path (success, non-success status,
\* network error, unreadable body) reaches through finally.  In Chat, with a
\* session the only upload that can still be in flight is the one that
\* created it, returning.
C21_Of(upl, upl2, flag, flag2, n, n2) ==
  /\ Len(upl) <= 1
  /\ flag <=> (upl # <<>>)
  /\ (n2 # n) => (~flag /\ flag2 /\ upl = <<>> /\ Len(upl2) = 1
                  /\ upl2[1].pc = "fetch" /\ n2 = n + 1)
  /\ (Len(upl2) > Len(upl)) => (n2 = n + 1)
  /\ (Len(upl2) < Len(upl)) => (upl[1].pc = "finally" /\ ~flag2)
  /\ (flag /\ ~flag2) => upl2 = <<>>
  /\ \A k \in 1..Len(upl) :
       /\ upl[k].error # NoError => upl[k].pc \in {"catch", "finally"}
       /\ upl[k].pc = "catch" => upl2 = [upl EXCEPT ![k].pc = "finally"]
       /\ upl[k].pc = "finally" => upl2 = <<>>

C21_Step ==
  /\ C21_Of(uploads, uploads', uploading, uploading', nUploads, nUploads')
  /\ C21_Of(du_uploads, du_uploads', du_uploading, du_uploading',
            du_nUploads, du_nUploads')
  /\ ~Falsy(sessionId) =>
       \A k \in 1..Len(uploads) :
         /\ uploads[k].pc = "finally"
         /\ uploads[k].error = NoError
         /\ uploads[k].data.session_id = sessionId

C21_UploadingWhileInFlight == [][C21_Step]_vars

\* After a first upload that failed, the second one has created the session
\* and is about to return: it is the only upload in flight and the flag is
\* still up.
C21_Witness ==
  /\ nUploads = 2
  /\ Len(uploads) = 1
  /\ uploads[1].pc = "finally"
  /\ uploads[1].error = NoError
  /\ uploading
  /\ sessionId = "s1"
  /\ messages = <<AssistantMsg(UploadErrorText)>>

=============================================================================
